---- MODULE Spec2Model ----
(***************************************************************************)
(* bezier-easing-rs (src/src/lib.rs): the cubic Bezier easing function.    *)
(*                                                                         *)
(* BFloat is f32.  Every value of the model is an IEEE-754 binary32 number *)
(* held as its three fields [s, e, m] (sign, biased exponent, fraction),   *)
(* and every arithmetic operation of the source is the correctly rounded   *)
(* (round-to-nearest, ties-to-even) binary32 operation, computed here on   *)
(* integers that stay below 2^31.  Intermediate values are passed as       *)
(* operator arguments, so that each is computed once.                      *)
(***************************************************************************)
EXTENDS Integers, Sequences, FiniteSets, TLC

(***************************************************************************)
(* binary32 arithmetic                                                     *)
(***************************************************************************)
Pow2(n) == 2 ^ n

Max(p, q) == IF p >= q THEN p ELSE q

\* the number of bits of n, for 1 <= n < 2^31
BitLen(n) ==
    IF n < 65536
    THEN IF n < 256
         THEN IF n < 16
              THEN IF n < 4 THEN (IF n < 2 THEN 1 ELSE 2) ELSE (IF n < 8 THEN 3 ELSE 4)
              ELSE IF n < 64 THEN (IF n < 32 THEN 5 ELSE 6) ELSE (IF n < 128 THEN 7 ELSE 8)
         ELSE IF n < 4096
              THEN IF n < 1024 THEN (IF n < 512 THEN 9 ELSE 10)
                               ELSE (IF n < 2048 THEN 11 ELSE 12)
              ELSE IF n < 16384 THEN (IF n < 8192 THEN 13 ELSE 14)
                                ELSE (IF n < 32768 THEN 15 ELSE 16)
    ELSE IF n < 16777216
         THEN IF n < 1048576
              THEN IF n < 262144 THEN (IF n < 131072 THEN 17 ELSE 18)
                                 ELSE (IF n < 524288 THEN 19 ELSE 20)
              ELSE IF n < 4194304 THEN (IF n < 2097152 THEN 21 ELSE 22)
                                  ELSE (IF n < 8388608 THEN 23 ELSE 24)
         ELSE IF n < 268435456
              THEN IF n < 67108864 THEN (IF n < 33554432 THEN 25 ELSE 26)
                                   ELSE (IF n < 134217728 THEN 27 ELSE 28)
              ELSE IF n < 1073741824 THEN (IF n < 536870912 THEN 29 ELSE 30)
                                     ELSE 31

F32(s, e, m) == [s |-> s, e |-> e, m |-> m]

PosZero == F32(0, 0, 0)
QNaN == F32(0, 255, Pow2(22))
Inf(s) == F32(s, 255, 0)

IsNaN(v) == v.e = 255 /\ v.m # 0
IsInf(v) == v.e = 255 /\ v.m = 0
IsZero(v) == v.e = 0 /\ v.m = 0

\* a finite value v is (-1)^v.s * Sig(v) * 2^Exp(v)
Sig(v) == IF v.e = 0 THEN v.m ELSE Pow2(23) + v.m
Exp(v) == Max(v.e, 1) - 150

\* the same value with the significand brought into [2^23, 2^24)
NormShift(v) == IF v.e = 0 THEN 24 - BitLen(v.m) ELSE 0
NormSig(v) == Sig(v) * Pow2(NormShift(v))
NormExp(v) == Exp(v) - NormShift(v)

\* top with its last bit set when rest, the bits below it, are not all 0
Jam(top, rest) == IF rest # 0 /\ top % 2 = 0 THEN top + 1 ELSE top

\* n shifted right by d bits, the bits shifted out ORed into the last bit
ShiftRightJam(n, d) ==
    IF d = 0 THEN n
    ELSE IF d >= 31 THEN (IF n # 0 THEN 1 ELSE 0)
    ELSE Jam(n \div Pow2(d), n % Pow2(d))

\* q0 + r / (2 * half) rounded to the nearest integer, ties to even
RoundNearestEven(q0, r, half) ==
    IF r > half \/ (r = half /\ q0 % 2 = 1) THEN q0 + 1 ELSE q0

\* sig / 2^sh rounded to the nearest integer, ties to even
RoundShift(sig, sh) ==
    IF sh <= 0 THEN sig * Pow2(-sh)
    ELSE IF sh >= 31 THEN (IF sh = 31 /\ sig > Pow2(30) THEN 1 ELSE 0)
    ELSE RoundNearestEven(sig \div Pow2(sh), sig % Pow2(sh), Pow2(sh - 1))

\* the value with sign s, exponent field e and fraction m; infinite when e
\* is beyond the largest finite exponent
Pack(s, e, m) == IF e >= 255 THEN Inf(s) ELSE F32(s, e, m)

\* q is the significand with the implicit bit (q < 2^23 for a subnormal, 2^24
\* when rounding carried out), e0 + 1 the exponent field of a normal q
PackSig(s, e0, q) == Pack(s, e0 + (q \div Pow2(23)), q % Pow2(23))

RoundPackShift(s, ex, sig, sh) == PackSig(s, ex + sh + 149, RoundShift(sig, sh))

\* (-1)^s * sig * 2^ex rounded to nearest, ties to even; 0 < sig < 2^31, and
\* the last bit of sig may stand for discarded bits when sig has 26 bits or
\* more.  The shift brings sig to 24 bits, or to the subnormal exponent.
RoundPack(s, ex, sig) ==
    RoundPackShift(s, ex, sig, Max(BitLen(sig) - 24, -149 - ex))

FNeg(v) == F32(1 - v.s, v.e, v.m)
FAbs(v) == F32(0, v.e, v.m)

\* the sum of (-1)^sa * A8 * 2^ex and (-1)^sb * B8 * 2^ex
AddSig(sa, sb, ex, A8, B8) ==
    IF sa # sb /\ A8 = B8 THEN PosZero
    ELSE RoundPack(IF sa = sb \/ A8 > B8 THEN sa ELSE sb, ex,
                   IF sa = sb THEN A8 + B8
                   ELSE IF A8 > B8 THEN A8 - B8 ELSE B8 - A8)

\* v + w for finite, nonzero v and w with Exp(v) >= Exp(w): three more bits
\* are kept below the significands
AddOrdered(v, w) ==
    AddSig(v.s, w.s, Exp(v) - 3, Sig(v) * 8,
           ShiftRightJam(Sig(w) * 8, Exp(v) - Exp(w)))

FAdd(v, w) ==
    IF IsNaN(v) \/ IsNaN(w) THEN QNaN
    ELSE IF IsInf(v) THEN (IF IsInf(w) /\ v.s # w.s THEN QNaN ELSE v)
    ELSE IF IsInf(w) THEN w
    ELSE IF IsZero(v)
         THEN (IF IsZero(w) THEN F32(IF v.s = 1 /\ w.s = 1 THEN 1 ELSE 0, 0, 0) ELSE w)
    ELSE IF IsZero(w) THEN v
    ELSE AddOrdered(IF Exp(v) >= Exp(w) THEN v ELSE w,
                    IF Exp(v) >= Exp(w) THEN w ELSE v)

FSub(v, w) == FAdd(v, FNeg(w))

\* the 48-bit product as hi * 2^24 + low, cut to its upper 30 bits
MulTop(s, ex, hi, low) ==
    RoundPack(s, ex,
              Jam((hi + (low \div Pow2(24))) * 64 + ((low % Pow2(24)) \div Pow2(18)),
                  low % Pow2(18)))

\* hh * 2^24 + mid * 2^12 + ll
MulMid(s, ex, hh, mid, ll) ==
    MulTop(s, ex, hh + (mid \div 4096), ll + (mid % 4096) * 4096)

\* the product of the 24-bit significands ah * 2^12 + al and bh * 2^12 + bl
MulLimbs(s, ex, ah, al, bh, bl) ==
    MulMid(s, ex, ah * bh, ah * bl + al * bh, al * bl)

MulSig(s, ex, ma, mb) ==
    MulLimbs(s, ex, ma \div 4096, ma % 4096, mb \div 4096, mb % 4096)

FMul(v, w) ==
    IF IsNaN(v) \/ IsNaN(w) THEN QNaN
    ELSE IF IsInf(v) \/ IsInf(w)
         THEN (IF IsZero(v) \/ IsZero(w) THEN QNaN ELSE Inf(IF v.s = w.s THEN 0 ELSE 1))
    ELSE IF IsZero(v) \/ IsZero(w) THEN F32(IF v.s = w.s THEN 0 ELSE 1, 0, 0)
    ELSE MulSig(IF v.s = w.s THEN 0 ELSE 1, NormExp(v) + NormExp(w) + 18,
                NormSig(v), NormSig(w))

\* long division, 7 bits of the quotient in each of n steps
RECURSIVE DivLoop(_, _, _, _, _, _)
DivLoop(s, ex, mb, q, r, n) ==
    IF n = 0 THEN RoundPack(s, ex, Jam(q, r))
    ELSE DivLoop(s, ex, mb, q * 128 + ((r * 128) \div mb), (r * 128) % mb, n - 1)

\* ma / mb for 24-bit significands, to 28 bits below the binary point
DivSig(s, ex, ma, mb) == DivLoop(s, ex, mb, ma \div mb, ma % mb, 4)

FDiv(v, w) ==
    IF IsNaN(v) \/ IsNaN(w) THEN QNaN
    ELSE IF IsInf(v) THEN (IF IsInf(w) THEN QNaN ELSE Inf(IF v.s = w.s THEN 0 ELSE 1))
    ELSE IF IsInf(w) THEN F32(IF v.s = w.s THEN 0 ELSE 1, 0, 0)
    ELSE IF IsZero(w)
         THEN (IF IsZero(v) THEN QNaN ELSE Inf(IF v.s = w.s THEN 0 ELSE 1))
    ELSE IF IsZero(v) THEN F32(IF v.s = w.s THEN 0 ELSE 1, 0, 0)
    ELSE DivSig(IF v.s = w.s THEN 0 ELSE 1, NormExp(v) - NormExp(w) - 28,
                NormSig(v), NormSig(w))

\* the order of the non-NaN values as integers (+0 and -0 are both 0)
Ord(v) == (IF v.s = 1 THEN -1 ELSE 1) * (v.e * Pow2(23) + v.m)

FEq(v, w) == ~IsNaN(v) /\ ~IsNaN(w) /\ Ord(v) = Ord(w)
FLe(v, w) == ~IsNaN(v) /\ ~IsNaN(w) /\ Ord(v) <= Ord(w)
FLt(v, w) == ~IsNaN(v) /\ ~IsNaN(w) /\ Ord(v) < Ord(w)
FGe(v, w) == FLe(w, v)
FGt(v, w) == FLt(w, v)

\* `n as BFloat` for 0 <= n <= 2^24
IntToF32(n) == IF n = 0 THEN PosZero ELSE RoundPack(0, 0, n)

\* the binary32 value nearest to n / d (what a decimal literal denotes), for
\* 0 < d <= 2^24 and |n| <= 2^24
Lit(n, d) ==
    IF n < 0 THEN FNeg(FDiv(IntToF32(-n), IntToF32(d)))
    ELSE FDiv(IntToF32(n), IntToF32(d))

(***************************************************************************)
(* src/src/lib.rs                                                          *)
(***************************************************************************)
Zero == IntToF32(0)
One == IntToF32(1)
Two == IntToF32(2)
Three == IntToF32(3)
Six == IntToF32(6)

NEWTON_ITERATIONS == 4
NEWTON_MIN_SLOPE == Lit(1, 1000)
SUBDIVISION_PRECISION == Lit(1, 10000000)
SUBDIVISION_MAX_ITERATIONS == 10

K_SPLINE_TABLE_SIZE == 11
K_SAMPLE_STEP_SIZE == FDiv(One, IntToF32(K_SPLINE_TABLE_SIZE - 1))

\* 1.0 - 3.0 * a_a2 + 3.0 * a_a1
a(a_a1, a_a2) == FAdd(FSub(One, FMul(Three, a_a2)), FMul(Three, a_a1))

\* 3.0 * a_a2 - 6.0 * a_a1
b(a_a1, a_a2) == FSub(FMul(Three, a_a2), FMul(Six, a_a1))

\* 3.0 * a_a1
c(a_a1) == FMul(Three, a_a1)

\* ((a * a_t + b) * a_t + c) * a_t
calc_bezier(a_t, a_a1, a_a2) ==
    FMul(FAdd(FMul(FAdd(FMul(a(a_a1, a_a2), a_t), b(a_a1, a_a2)), a_t), c(a_a1)), a_t)

\* 3.0 * a * a_t * a_t + 2.0 * b * a_t + c
get_slope(a_t, a_a1, a_a2) ==
    FAdd(FAdd(FMul(FMul(FMul(Three, a(a_a1, a_a2)), a_t), a_t),
              FMul(FMul(Two, b(a_a1, a_a2)), a_t)),
         c(a_a1))

RECURSIVE SubdivideLoop(_, _, _, _, _, _, _)

\* the rest of one iteration of binary_subdivide, current_t and current_x
\* computed: the interval is narrowed first, then the precision is tested
SubdivideStep(a_x, a_a, a_b, m_x1, m_x2, i, current_t, current_x) ==
    IF FLt(FAbs(current_x), SUBDIVISION_PRECISION)
    THEN current_t
    ELSE SubdivideLoop(a_x, a_a, a_b,
                       IF FGt(current_x, Zero) THEN m_x1 ELSE current_t,
                       IF FGt(current_x, Zero) THEN current_t ELSE m_x2,
                       current_t, i + 1)

\* current_x = calc_bezier(current_t, a_a, a_b) - a_x
SubdivideAt(a_x, a_a, a_b, m_x1, m_x2, i, current_t) ==
    SubdivideStep(a_x, a_a, a_b, m_x1, m_x2, i, current_t,
                  FSub(calc_bezier(current_t, a_a, a_b), a_x))

\* the while loop of binary_subdivide:
\* current_t = m_x1 + (m_x2 - m_x1) / 2.0
SubdivideLoop(a_x, a_a, a_b, m_x1, m_x2, current_t, i) ==
    IF i < SUBDIVISION_MAX_ITERATIONS
    THEN SubdivideAt(a_x, a_a, a_b, m_x1, m_x2, i,
                     FAdd(m_x1, FDiv(FSub(m_x2, m_x1), Two)))
    ELSE current_t

\* the interval that is halved is [m_x1, m_x2]; the curve that is evaluated
\* has the control values a_a, a_b
binary_subdivide(a_x, a_a, a_b, m_x1, m_x2) ==
    SubdivideLoop(a_x, a_a, a_b, m_x1, m_x2, Zero, 0)

RECURSIVE NewtonLoop(_, _, _, _, _)

\* the rest of one iteration of newton_raphson_iterate, current_slope computed
NewtonStep(a_x, guess_t, a_a, a_b, n, current_slope) ==
    IF FEq(current_slope, Zero) THEN guess_t
    ELSE NewtonLoop(a_x,
                    FSub(guess_t,
                         FDiv(FSub(calc_bezier(guess_t, a_a, a_b), a_x), current_slope)),
                    a_a, a_b, n + 1)

\* the for loop of newton_raphson_iterate, n iterations done
NewtonLoop(a_x, guess_t, a_a, a_b, n) ==
    IF n = NEWTON_ITERATIONS THEN guess_t
    ELSE NewtonStep(a_x, guess_t, a_a, a_b, n, get_slope(guess_t, a_a, a_b))

newton_raphson_iterate(a_x, a_guess_t, a_a, a_b) ==
    NewtonLoop(a_x, a_guess_t, a_a, a_b, 0)

\* linear_easing with its result limited to at most 1.0
LinearEasingClamped(x) == IF FGt(x, One) THEN One ELSE x

linear_easing(x) == x

\* calc_sample_values with the index counted from 1
SampleValuesFromOne(m_x1, m_x2) ==
    [j \in 1..K_SPLINE_TABLE_SIZE |->
        calc_bezier(FMul(IntToF32(j), K_SAMPLE_STEP_SIZE), m_x1, m_x2)]

\* the table as a sequence: entry i of the array is sample_values[i + 1]
calc_sample_values(m_x1, m_x2) ==
    [j \in 1..K_SPLINE_TABLE_SIZE |->
        calc_bezier(FMul(IntToF32(j - 1), K_SAMPLE_STEP_SIZE), m_x1, m_x2)]

\* the bracket scan with < in place of <=
RECURSIVE ScanLoopStrict(_, _, _, _)
ScanLoopStrict(sample_values, x, interval_start, current_sample) ==
    IF current_sample # K_SPLINE_TABLE_SIZE - 1
        /\ FLt(sample_values[current_sample + 1], x)
    THEN ScanLoopStrict(sample_values, x,
                        FAdd(interval_start, K_SAMPLE_STEP_SIZE), current_sample + 1)
    ELSE <<interval_start, current_sample>>

\* the bracket scan without interval_start += K_SAMPLE_STEP_SIZE
RECURSIVE ScanLoopNoStep(_, _, _, _)
ScanLoopNoStep(sample_values, x, interval_start, current_sample) ==
    IF current_sample # K_SPLINE_TABLE_SIZE - 1
        /\ FLe(sample_values[current_sample + 1], x)
    THEN ScanLoopNoStep(sample_values, x, interval_start, current_sample + 1)
    ELSE <<interval_start, current_sample>>

\* the bracket scan: <<interval_start, current_sample>> when the loop ends
RECURSIVE ScanLoop(_, _, _, _)
ScanLoop(sample_values, x, interval_start, current_sample) ==
    IF current_sample # K_SPLINE_TABLE_SIZE - 1
        /\ FLe(sample_values[current_sample + 1], x)
    THEN ScanLoop(sample_values, x,
                  FAdd(interval_start, K_SAMPLE_STEP_SIZE), current_sample + 1)
    ELSE <<interval_start, current_sample>>

\* which of the three branches of get_t_for_x is taken
BranchOf(initial_slope) ==
    IF FGe(initial_slope, NEWTON_MIN_SLOPE) THEN "newton"
    ELSE IF FEq(initial_slope, Zero) THEN "guess"
    ELSE "subdivide"

\* the end of get_t_for_x, its locals computed: they are recorded with the
\* value returned, which is the field t
Refine(x, m_x1, m_x2, sample_values, interval_start, current_sample, dist, guess_for_t, initial_slope) ==
    [sample_values |-> sample_values,
     current_sample |-> current_sample,
     interval_start |-> interval_start,
     dist |-> dist,
     guess_for_t |-> guess_for_t,
     initial_slope |-> initial_slope,
     branch |-> BranchOf(initial_slope),
     t |-> IF FGe(initial_slope, NEWTON_MIN_SLOPE)
           THEN newton_raphson_iterate(x, guess_for_t, m_x1, m_x2)
           ELSE IF FEq(initial_slope, Zero)
           THEN guess_for_t
           ELSE binary_subdivide(x, interval_start,
                                 FAdd(interval_start, K_SAMPLE_STEP_SIZE),
                                 m_x1, m_x2)]

\* initial_slope = get_slope(guess_for_t, m_x1, m_x2)
Guess(x, m_x1, m_x2, sample_values, interval_start, current_sample, dist, guess_for_t) ==
    Refine(x, m_x1, m_x2, sample_values, interval_start, current_sample, dist,
           guess_for_t, get_slope(guess_for_t, m_x1, m_x2))

\* guess_for_t = interval_start + dist * K_SAMPLE_STEP_SIZE
Interpolate(x, m_x1, m_x2, sample_values, interval_start, current_sample, dist) ==
    Guess(x, m_x1, m_x2, sample_values, interval_start, current_sample, dist,
          FAdd(interval_start, FMul(dist, K_SAMPLE_STEP_SIZE)))

\* after current_sample -= 1:
\* dist = (x - sample_values[current_sample])
\*        / (sample_values[current_sample + 1] - sample_values[current_sample])
Bracket(x, m_x1, m_x2, sample_values, interval_start, current_sample) ==
    Interpolate(x, m_x1, m_x2, sample_values, interval_start, current_sample,
                FDiv(FSub(x, sample_values[current_sample + 1]),
                     FSub(sample_values[current_sample + 2],
                          sample_values[current_sample + 1])))

Scan(x, m_x1, m_x2, sample_values, scan) ==
    Bracket(x, m_x1, m_x2, sample_values, scan[1], scan[2] - 1)

Sampled(x, m_x1, m_x2, sample_values) ==
    Scan(x, m_x1, m_x2, sample_values, ScanLoop(sample_values, x, Zero, 1))

get_t_for_x(x, m_x1, m_x2) ==
    Sampled(x, m_x1, m_x2, calc_sample_values(m_x1, m_x2))

\* (0.0..1.0).contains(&v): the range without its upper end
Contains01HalfOpen(v) == FLe(Zero, v) /\ FLt(v, One)

\* (0.0..=1.0).contains(&v)
Contains01(v) == FLe(Zero, v) /\ FLe(v, One)

\* the closure returned by bezier_easing: the path taken, the solver's locals
\* when it ran, and the value returned (y)
NoSolve == [branch |-> "none"]

Solved(x, m_y1, m_y2, sol) ==
    [x |-> x, path |-> "solve", sol |-> sol, y |-> calc_bezier(sol.t, m_y1, m_y2)]

\* the closure without the test x == 0.0 || x == 1.0
ClosureNoEndpoint(m_x1, m_y1, m_x2, m_y2, x) ==
    IF FEq(m_x1, m_y1) /\ FEq(m_x2, m_y2)
    THEN [x |-> x, path |-> "linear", sol |-> NoSolve, y |-> linear_easing(x)]
    ELSE Solved(x, m_y1, m_y2, get_t_for_x(x, m_x1, m_x2))

Closure(m_x1, m_y1, m_x2, m_y2, x) ==
    IF FEq(m_x1, m_y1) /\ FEq(m_x2, m_y2)
    THEN [x |-> x, path |-> "linear", sol |-> NoSolve, y |-> linear_easing(x)]
    ELSE IF FEq(x, Zero) \/ FEq(x, One)
    THEN [x |-> x, path |-> "endpoint", sol |-> NoSolve, y |-> x]
    ELSE Solved(x, m_y1, m_y2, get_t_for_x(x, m_x1, m_x2))


(* The program as a state machine: bezier_easing is called once with the   *)
(* control points ctl; when it returns Ok, the closure is called.          *)
(***************************************************************************)
VARIABLES
    ctl,      \* the arguments m_x1, m_y1, m_x2, m_y2 of bezier_easing
    result,   \* "pending" before bezier_easing returns, then "Ok" or "Err"
    call,     \* the last call of the closure (NoCall before the first)
    prev      \* the call before it (NoCall before the second)

vars == <<ctl, result, call, prev>>

NoCall == [x |-> Zero, path |-> "none", sol |-> NoSolve, y |-> Zero]

\* bounds of the inputs
GridN == 5
XGridN == 4
NearExp == 15
PairLo == 9
PairHi == 12

Half == Lit(1, 2)
PrevOne == FSub(One, Lit(1, Pow2(24)))

\* the value next above 1.0 and the value next below 0.0
AboveOne == F32(0, 127, 1)
BelowZero == F32(1, 0, 1)

\* control values: a grid over [0,1], one grid value on each side of it, the
\* values next to the ends of [0,1] outside it, and NaN
CtlX == {Lit(k, GridN) : k \in -1..GridN + 1} \cup {AboveOne, BelowZero, QNaN}
CtlY1 == {Zero, One}
CtlY2 == {Half, One}

\* arguments of the closure for the curve cp: a grid over [0,1] with one
\* value on each side, NaN, the table samples 1..9 of the curve, values near
\* 0, 1/2 and 1, and the largest value below 1
XInputs(cp) ==
    {Lit(k, XGridN) : k \in -1..XGridN + 1}
    \cup {QNaN}
    \cup {calc_sample_values(cp.x1, cp.x2)[k + 1] : k \in 1..K_SPLINE_TABLE_SIZE - 2}
    \cup {Lit(1, Pow2(NearExp)), FSub(One, Lit(1, Pow2(NearExp))),
          FSub(Half, Lit(1, Pow2(NearExp))), FAdd(Half, Lit(1, Pow2(NearExp))),
          PrevOne}

\* arguments for two calls in a row: values on both sides of 1/2
PairInputs ==
    {FSub(Half, Lit(1, Pow2(j))) : j \in PairLo..PairHi}
    \cup {FAdd(Half, Lit(1, Pow2(j))) : j \in PairLo..PairHi}

Init ==
    /\ ctl \in [x1 : CtlX, y1 : CtlY1, x2 : CtlX, y2 : CtlY2]
    /\ result = "pending"
    /\ call = NoCall
    /\ prev = NoCall

InitPair ==
    /\ ctl \in [x1 : {Zero, One}, y1 : {Zero}, x2 : {Zero, One}, y2 : {Half}]
    /\ result = "pending"
    /\ call = NoCall
    /\ prev = NoCall

\* bezier_easing: Err when a control x is outside [0, 1], else the closure
BezierEasing ==
    /\ result = "pending"
    /\ result' = IF ~(Contains01(ctl.x1) /\ Contains01(ctl.x2)) THEN "Err" ELSE "Ok"
    /\ UNCHANGED <<ctl, call, prev>>

\* the first call of the closure
Ease(x) ==
    /\ result = "Ok"
    /\ call = NoCall
    /\ call' = Closure(ctl.x1, ctl.y1, ctl.x2, ctl.y2, x)
    /\ UNCHANGED <<ctl, result, prev>>

\* the second call of the same closure
EaseAgain(x) ==
    /\ result = "Ok"
    /\ call # NoCall
    /\ prev = NoCall
    /\ prev' = call
    /\ call' = Closure(ctl.x1, ctl.y1, ctl.x2, ctl.y2, x)
    /\ UNCHANGED <<ctl, result>>

EaseOnce == \E x \in XInputs(ctl) : Ease(x)
EaseFirst == \E x \in PairInputs : Ease(x)
EaseSecond == \E x \in PairInputs : EaseAgain(x)

Next == BezierEasing \/ EaseOnce
NextPair == BezierEasing \/ EaseFirst \/ EaseSecond

Spec == Init /\ [][Next]_vars
SpecPair == InitPair /\ [][NextPair]_vars

(***************************************************************************)
(* Properties                                                              *)
(***************************************************************************)
\* v is in [0, 1], read off the fields of v: a zero of either sign, or a
\* positive value whose exponent is below that of 1.0, or 1.0 itself
InUnit(v) ==
    /\ ~IsNaN(v)
    /\ \/ IsZero(v)
       \/ v.s = 0 /\ (v.e < 127 \/ (v.e = 127 /\ v.m = 0))

\* v is in (0, 1)
InOpenUnit(v) == FLt(Zero, v) /\ FLt(v, One)

\* the binary32 value nearest to k/10
Tenth(k) == Lit(k, 10)

\* 0.0 with K_SAMPLE_STEP_SIZE added k times, each sum rounded
RECURSIVE StepSum(_)
StepSum(k) == IF k = 0 THEN Zero ELSE FAdd(StepSum(k - 1), K_SAMPLE_STEP_SIZE)

\* the closure has been called, and the call ran get_t_for_x with x in (0,1)
Called == call.path # "none"
SolvedInside == call.path = "solve" /\ InOpenUnit(call.x)

\* C1: bezier_easing returns an error exactly when x1 or x2 lies outside
\* [0,1], whatever y1 and y2 are; the boundary values 0 and 1 are accepted.
C1_Validation ==
    result # "pending" =>
        (result = "Err" <=> ~(InUnit(ctl.x1) /\ InUnit(ctl.x2)))

C1_Witness == result = "Ok" /\ ctl.x1 = One /\ ctl.x2 = Zero

\* C2: for valid control points ease(0) = 0 and ease(1) = 1 exactly, and the
\* solver does not run.
C2_Endpoints ==
    (Called /\ (call.x = Zero \/ call.x = One)) =>
        (call.y = call.x /\ call.path # "solve" /\ call.sol = NoSolve)

C2_Witness == call.path = "endpoint" /\ call.x = One /\ call.y = One

\* C3: when x1 == y1 and x2 == y2 the easing function is the identity for
\* every input, also outside [0,1], bit for bit, and the solver does not run.
C3_LinearIdentity ==
    (Called /\ FEq(ctl.x1, ctl.y1) /\ FEq(ctl.x2, ctl.y2)) =>
        (call.y = call.x /\ call.path = "linear" /\ call.sol = NoSolve)

C3_Witness == call.path = "linear" /\ FGt(call.x, One) /\ call.y = call.x

\* the curve of the test it_works: bezier_easing(0.0, 0.0, 1.0, 0.5)
RefCurve == [x1 |-> Zero, y1 |-> Zero, x2 |-> One, y2 |-> Half]

\* ease(0.0) = 0.0, ease(0.5) = 0.3125 and ease(1.0) = 1.0 on that curve
RefScenario ==
    (Called /\ ctl = RefCurve) =>
        /\ call.x = Zero => call.y = Zero
        /\ call.x = Half => call.y = Lit(5, 16)
        /\ call.x = One => call.y = One

\* x is exactly entry k of the table
AtSample(k) == SolvedInside /\ call.sol.sample_values[k + 1] = call.x

\* C4 as stated: when x in (0,1) equals table sample k (k in 1..9), the
\* bracket starts at that sample with intervalStart = k/10 and guess k/10,
\* and when the slope at k/10 is at least 0.001 the solver returns exactly
\* t = k/10, so that ease(x) = calc_bezier(k/10, y1, y2); and the reference
\* scenario holds.
C4_AsStated ==
    /\ RefScenario
    /\ \A k \in 1..K_SPLINE_TABLE_SIZE - 2 :
          AtSample(k) =>
            /\ call.sol.current_sample = k
            /\ call.sol.interval_start = Tenth(k)
            /\ call.sol.guess_for_t = Tenth(k)
            /\ FGe(get_slope(Tenth(k), ctl.x1, ctl.x2), NEWTON_MIN_SLOPE) =>
                  /\ call.sol.t = Tenth(k)
                  /\ call.y = calc_bezier(Tenth(k), ctl.y1, ctl.y2)

\* C4 amended: when x in (0,1) equals table sample k (k in 1..9), the bracket
\* starts at that sample, and intervalStart and the guess are the rounded sum
\* of k steps of 0.1, which is k/10 for k <= 6 and differs from k/10 for
\* k = 7, 8, 9; for k <= 6, when the slope at k/10 is at least 0.001, the
\* solver returns exactly t = k/10 and ease(x) = calc_bezier(k/10, y1, y2);
\* and the reference scenario holds.
C4_SampleHit ==
    /\ RefScenario
    /\ \A k \in 1..K_SPLINE_TABLE_SIZE - 2 :
          AtSample(k) =>
            /\ call.sol.current_sample = k
            /\ call.sol.interval_start = StepSum(k)
            /\ call.sol.guess_for_t = StepSum(k)
            /\ (StepSum(k) = Tenth(k)) <=> (k <= 6)
            /\ (k <= 6 /\ FGe(get_slope(Tenth(k), ctl.x1, ctl.x2), NEWTON_MIN_SLOPE)) =>
                  /\ call.sol.branch = "newton"
                  /\ call.sol.t = Tenth(k)
                  /\ call.y = calc_bezier(Tenth(k), ctl.y1, ctl.y2)

C4_Witness ==
    /\ ctl = RefCurve
    /\ AtSample(5)
    /\ call.x = Half
    /\ call.sol.branch = "newton"
    /\ call.sol.t = Tenth(5)
    /\ call.y = Lit(5, 16)

\* C5: for fixed valid x1, x2 the t returned by get_t_for_x is non-decreasing
\* in x: of two calls with arguments a < b in (0,1), the first returns a t
\* that is at most the second's.
C5_Monotone ==
    (/\ prev.path = "solve" /\ call.path = "solve"
     /\ InOpenUnit(prev.x) /\ InOpenUnit(call.x)
     /\ FLt(prev.x, call.x)) =>
        FLe(prev.sol.t, call.sol.t)

\* C6: whenever get_t_for_x routes a call with x in (0,1) to binary_subdivide,
\* the t returned satisfies |calc_bezier(t, x1, x2) - x| < 1e-7.
C6_Converges ==
    (SolvedInside /\ call.sol.branch = "subdivide") =>
        FLt(FAbs(FSub(calc_bezier(call.sol.t, ctl.x1, ctl.x2), call.x)),
            SUBDIVISION_PRECISION)

\* C8: the refinement is chosen by the slope at the guess: slope >= 0.001
\* runs Newton-Raphson from the guess, slope 0 returns the guess, every other
\* case bisects the curve x(t) on [intervalStart, intervalStart + 0.1]; for
\* x in (0,1) that last branch is entered only with 0 < slope < 0.001.
C8_Branches ==
    SolvedInside =>
        IF FGe(call.sol.initial_slope, NEWTON_MIN_SLOPE)
        THEN call.sol.branch = "newton"
        ELSE IF FEq(call.sol.initial_slope, Zero)
        THEN call.sol.branch = "guess" /\ call.sol.t = call.sol.guess_for_t
        ELSE /\ call.sol.branch = "subdivide"
             /\ FLt(Zero, call.sol.initial_slope)
             /\ FLt(call.sol.initial_slope, NEWTON_MIN_SLOPE)
             /\ call.sol.t =
                  binary_subdivide(call.x, ctl.x1, ctl.x2, call.sol.interval_start,
                                   FAdd(call.sol.interval_start, K_SAMPLE_STEP_SIZE))

\* C9 as stated: for x in (0,1) the scan advances at most 9 times and ends
\* at an index k in 0..9 with intervalStart = k/10 and
\* sample[k] <= x < sample[k+1], both indices inside the table.
C9_AsStated ==
    SolvedInside =>
        /\ call.sol.current_sample \in 0..K_SPLINE_TABLE_SIZE - 2
        /\ Len(call.sol.sample_values) = K_SPLINE_TABLE_SIZE
        /\ call.sol.interval_start = Tenth(call.sol.current_sample)
        /\ FLe(call.sol.sample_values[call.sol.current_sample + 1], call.x)
        /\ FLt(call.x, call.sol.sample_values[call.sol.current_sample + 2])

\* C9 amended: for x in (0,1) the scan advances at most 9 times and ends at
\* an index k in 0..9, both k and k+1 inside the 11-entry table, with
\* intervalStart the rounded sum of k steps of 0.1 (k/10 exactly for k <= 6
\* only) and sample[k] <= x; x < sample[k+1] holds when k < 9, and for k = 9
\* when the last sample is not below 1.
C9_Bracket ==
    SolvedInside =>
        /\ call.sol.current_sample \in 0..K_SPLINE_TABLE_SIZE - 2
        /\ Len(call.sol.sample_values) = K_SPLINE_TABLE_SIZE
        /\ call.sol.interval_start = StepSum(call.sol.current_sample)
        /\ (call.sol.interval_start = Tenth(call.sol.current_sample))
              <=> (call.sol.current_sample <= 6)
        /\ FLe(call.sol.sample_values[call.sol.current_sample + 1], call.x)
        /\ (\/ call.sol.current_sample < K_SPLINE_TABLE_SIZE - 2
            \/ FGe(call.sol.sample_values[K_SPLINE_TABLE_SIZE], One)) =>
              FLt(call.x, call.sol.sample_values[call.sol.current_sample + 2])

C9_Witness ==
    /\ SolvedInside
    /\ call.sol.current_sample = K_SPLINE_TABLE_SIZE - 2
    /\ call.sol.interval_start # Tenth(K_SPLINE_TABLE_SIZE - 2)
    /\ FLe(call.sol.sample_values[K_SPLINE_TABLE_SIZE], call.x)

\* the table has 11 entries, the first is 0 and no entry is below the one
\* before it
TableOrdered(sample_values) ==
    /\ Len(sample_values) = K_SPLINE_TABLE_SIZE
    /\ FEq(sample_values[1], Zero)
    /\ \A i \in 0..K_SPLINE_TABLE_SIZE - 2 :
          FLe(sample_values[i + 1], sample_values[i + 2])

\* the binary32 value next above a positive v
NextAbove(v) == F32(v.s, v.e, v.m + 1)

\* the rounded product i * 0.1: the value nearest to i/10, but for i = 9 the
\* value next above it
TenthOfTable(i) == IF i = 9 THEN NextAbove(Tenth(i)) ELSE Tenth(i)

\* C10 as stated: the table of calc_sample_values has 11 entries, entry i is
\* calc_bezier(i/10, x1, x2), the first is 0, the last is 1, and it is
\* non-decreasing.
C10_AsStated ==
    call.path = "solve" =>
        /\ TableOrdered(call.sol.sample_values)
        /\ \A i \in 0..K_SPLINE_TABLE_SIZE - 1 :
              call.sol.sample_values[i + 1] = calc_bezier(Tenth(i), ctl.x1, ctl.x2)
        /\ FEq(call.sol.sample_values[K_SPLINE_TABLE_SIZE], One)

\* C10 amended: the table of calc_sample_values has 11 entries, entry i is
\* calc_bezier(t, x1, x2) at t the rounded product i * 0.1 (the value nearest
\* to i/10, except for i = 9, where it is the value next above), the first
\* entry is 0, the table is non-decreasing, and the last entry is within
\* 2^-20 of 1 (it is not always 1).
C10_Table ==
    call.path = "solve" =>
        /\ TableOrdered(call.sol.sample_values)
        /\ \A i \in 0..K_SPLINE_TABLE_SIZE - 1 :
              call.sol.sample_values[i + 1] =
                  calc_bezier(TenthOfTable(i), ctl.x1, ctl.x2)
        /\ FLe(FSub(One, Lit(1, Pow2(20))), call.sol.sample_values[K_SPLINE_TABLE_SIZE])
        /\ FLe(call.sol.sample_values[K_SPLINE_TABLE_SIZE], FAdd(One, Lit(1, Pow2(20))))

C10_Witness ==
    /\ call.path = "solve"
    /\ InUnit(ctl.x1) /\ InUnit(ctl.x2)
    /\ call.sol.sample_values[K_SPLINE_TABLE_SIZE - 1] #
          calc_bezier(Tenth(K_SPLINE_TABLE_SIZE - 2), ctl.x1, ctl.x2)
    /\ ~FEq(call.sol.sample_values[K_SPLINE_TABLE_SIZE], One)

====
